---- MODULE Spec2Model ----
(***************************************************************************)
(* Scan lifecycle of one QR record of kunaldevelopers/qrcode-backend:      *)
(* the Expiration Policy Evaluator (isQrCodeExpired), the Scan Recorder    *)
(* (recordScan) and the request handlers that call them, run by            *)
(* concurrent requests against one document of the store.  Every await of  *)
(* the JavaScript source is one step of a request; the code between two    *)
(* awaits runs without interleaving (single-threaded event loop).          *)
(***************************************************************************)
EXTENDS Integers, Sequences, FiniteSets, TLC

\* ------------------------------------------------------------------ bounds
NumCalls == 2
MaxTime == 2
MaxLimit == 2
MaxRecords == 3
MaxCount == 3

\* ------------------------------------------------------------------ values
\* security.expiresAt / analytics.lastScanned: no date. Dates are 1..MaxTime.
NullDate == 0

\* A Date object that holds no valid time (its getTime() is NaN).
InvalidDate == -1

\* now > expiry, as JavaScript compares dates: false when expiry is invalid.
Later(t, expiry) == expiry # InvalidDate /\ t > expiry

Procs == 1..NumCalls
Dates == 1..MaxTime

\* The expiresAt of a created record: none, or a date the clock can pass.
ExpiryDates == {NullDate} \cup (1..(MaxTime - 1))

\* A string is a sequence of characters; "" is << >>.
EmptyString == << >>
Unknown == "Unknown"

\* JavaScript's String.prototype.trim: strip leading and trailing blanks.
RECURSIVE TrimLeft(_)
TrimLeft(s) ==
    IF s # << >> /\ Head(s) = " " THEN TrimLeft(Tail(s)) ELSE s

RECURSIVE TrimRight(_)
TrimRight(s) ==
    IF s # << >> /\ s[Len(s)] = " " THEN TrimRight(SubSeq(s, 1, Len(s) - 1)) ELSE s

Trim(s) == TrimRight(TrimLeft(s))

\* ------------------------------------------------------------ the document
\* findById's null: no document under the identifier.
NoDoc ==
    [exists |-> FALSE, userId |-> "", isExpired |-> FALSE, scanCount |-> 0,
     lastScanned |-> NullDate, scanLocations |-> << >>, devices |-> << >>,
     isPasswordProtected |-> FALSE, password |-> EmptyString,
     expiresAt |-> NullDate, maxScans |-> 0]

\* The document a find returned, as its caller uses it: no caller reads the
\* lastScanned, scanLocations or devices of a document it holds, so a held
\* copy leaves them out.
Held(d) ==
    [d EXCEPT !.lastScanned = NullDate, !.scanLocations = << >>,
              !.devices = << >>]

\* qrCodeSchema.pre("save"): the security state a save leaves consistent.
PreSave(d) ==
    [d EXCEPT !.password = IF ~d.isPasswordProtected THEN EmptyString ELSE @,
              !.maxScans = IF d.maxScans < 0 THEN 0 ELSE @,
              !.expiresAt = IF @ = InvalidDate THEN NullDate ELSE @]

\* req.user.userId of the record's owner.
Owner == "owner"

\* A document as the creation routes persist it: schema defaults for the
\* analytics block and isExpired, the request's security object, then save().
NewDoc(protected, password, expiresAt, maxScans) ==
    PreSave([NoDoc EXCEPT !.exists = TRUE,
                          !.userId = Owner,
                          !.isPasswordProtected = protected,
                          !.password = password,
                          !.expiresAt = expiresAt,
                          !.maxScans = maxScans])

\* ------------------------------------------------- Expiration Policy Evaluator
\* Mutant: a record counted as expired at its expiry time already.
isQrCodeExpired_AtExpiry(qrCode, t) ==
    IF ~qrCode.exists THEN TRUE
    ELSE IF qrCode.isExpired THEN TRUE
    ELSE IF qrCode.expiresAt # NullDate /\ qrCode.expiresAt # InvalidDate
            /\ t >= qrCode.expiresAt THEN TRUE
    ELSE IF qrCode.maxScans > 0 /\ qrCode.scanCount >= qrCode.maxScans THEN TRUE
    ELSE FALSE

\* isQrCodeExpired(qrCode), with the value of new Date() as t.
isQrCodeExpired(qrCode, t) ==
    IF ~qrCode.exists THEN TRUE
    ELSE IF qrCode.isExpired THEN TRUE
    ELSE IF qrCode.expiresAt # NullDate /\ Later(t, qrCode.expiresAt) THEN TRUE
    ELSE IF qrCode.maxScans > 0 /\ qrCode.scanCount >= qrCode.maxScans THEN TRUE
    ELSE FALSE

\* ------------------------------------------------------ device classification
\* A user agent is the set of the markers its lower-cased text contains.
Markers ==
    {"iphone", "ipad", "android", "windows phone", "macintosh", "mac os",
     "windows", "linux", "mobile", "tablet"}

\* ua.includes(m): the text "windows phone" contains the text "windows".
Includes(ua, m) ==
    m \in ua \/ (m = "windows" /\ "windows phone" \in ua)

\* Mutant: android tested before iphone/ipad.
DeviceType_AndroidFirst(ua) ==
    IF Includes(ua, "android") THEN "android"
    ELSE IF Includes(ua, "iphone") \/ Includes(ua, "ipad") THEN "ios"
    ELSE IF Includes(ua, "windows phone") THEN "windows phone"
    ELSE IF Includes(ua, "macintosh") \/ Includes(ua, "mac os") THEN "mac"
    ELSE IF Includes(ua, "windows") THEN "windows"
    ELSE IF Includes(ua, "linux") THEN "linux"
    ELSE IF Includes(ua, "mobile") \/ Includes(ua, "tablet") THEN "mobile"
    ELSE "unknown"

DeviceType(ua) ==
    IF Includes(ua, "iphone") \/ Includes(ua, "ipad") THEN "ios"
    ELSE IF Includes(ua, "android") THEN "android"
    ELSE IF Includes(ua, "windows phone") THEN "windows phone"
    ELSE IF Includes(ua, "macintosh") \/ Includes(ua, "mac os") THEN "mac"
    ELSE IF Includes(ua, "windows") THEN "windows"
    ELSE IF Includes(ua, "linux") THEN "linux"
    ELSE IF Includes(ua, "mobile") \/ Includes(ua, "tablet") THEN "mobile"
    ELSE IF Includes(ua, "windows") \/ Includes(ua, "macintosh")
            \/ Includes(ua, "linux") THEN "desktop"
    ELSE "unknown"

\* A property the caller left out of scanData.
Undefined == "undefined"

\* const {country = "Unknown", city = "Unknown"} = scanData, and then
\* locationInfo: country || "Unknown", city || "Unknown".
OrUnknown(v) == IF v = Undefined \/ v = "" THEN Unknown ELSE v

LocationInfo(sd) ==
    [country |-> OrUnknown(sd.country), city |-> OrUnknown(sd.city)]

\* ------------------------------------------------------------ store operations
\* Mutant: the limit compared with > instead of >=.
ExpireOnUpdate_Strict(qrCode) ==
    qrCode.maxScans > 0 /\ qrCode.scanCount + 1 > qrCode.maxScans

\* Mutant: the limit compared without the maxScans > 0 guard.
ExpireOnUpdate_NoGuard(qrCode) ==
    qrCode.scanCount + 1 >= qrCode.maxScans

\* The isExpired value of recordScan's update: computed by the caller from
\* the record it read (qrCode), not from the stored document.
ExpireOnUpdate(qrCode) ==
    qrCode.maxScans > 0 /\ qrCode.scanCount + 1 >= qrCode.maxScans

\* Mutant: the count written from the caller's read instead of $inc.
FindByIdAndUpdate_SetFromRead(d, qrCode, li, t) ==
    [d EXCEPT !.scanCount = qrCode.scanCount + 1,
              !.lastScanned = t,
              !.isExpired = qrCode.maxScans > 0
                            /\ qrCode.scanCount + 1 >= qrCode.maxScans,
              !.scanLocations =
                  Append(@, [country |-> li.country, city |-> li.city,
                             timestamp |-> t])]

\* Mutant: the location entry put in front of the history.
FindByIdAndUpdate_Prepend(d, qrCode, li, t) ==
    [d EXCEPT !.scanCount = @ + 1,
              !.lastScanned = t,
              !.isExpired = qrCode.maxScans > 0
                            /\ qrCode.scanCount + 1 >= qrCode.maxScans,
              !.scanLocations =
                  <<[country |-> li.country, city |-> li.city,
                     timestamp |-> t]>> \o @]

\* QRCode.findByIdAndUpdate(qrCodeId, {$inc, $set, $push}) applied to the
\* stored document d: one atomic update. qrCode is the caller's earlier read,
\* li its locationInfo, t its new Date().
FindByIdAndUpdate(d, qrCode, li, t) ==
    [d EXCEPT !.scanCount = @ + 1,
              !.lastScanned = t,
              !.isExpired = ExpireOnUpdate(qrCode),
              !.scanLocations =
                  Append(@, [country |-> li.country, city |-> li.city,
                             timestamp |-> t])]

\* QRCode.findOne({_id, "analytics.devices.type": deviceType}) finds a document.
DeviceExists(d, type) ==
    d.exists /\ \E i \in 1..Len(d.devices) : d.devices[i].type = type

\* The positional operator $: the first element the filter matches.
FirstDevice(d, type) ==
    CHOOSE i \in 1..Len(d.devices) :
        /\ d.devices[i].type = type
        /\ \A j \in 1..(i - 1) : d.devices[j].type # type

\* updateOne({_id, "analytics.devices.type": deviceType},
\*           {$inc: {"analytics.devices.$.count": 1}}): no match, no change.
IncDevice(d, type) ==
    IF DeviceExists(d, type)
    THEN [d EXCEPT !.devices[FirstDevice(d, type)].count = @ + 1]
    ELSE d

\* Mutant: the push run as an upsert.
PushDevice_Upsert(d, type) ==
    [d EXCEPT !.exists = TRUE,
              !.devices = Append(@, [type |-> type, count |-> 1])]

\* updateOne({_id}, {$push: {"analytics.devices": {type, count: 1}}}).
PushDevice(d, type) ==
    IF d.exists
    THEN [d EXCEPT !.devices = Append(@, [type |-> type, count |-> 1])]
    ELSE d

\* Mutant: the push skipped when an entry of the type has appeared meanwhile.
UpdateDevices_PushIfAbsent(d, deviceExists, type) ==
    IF deviceExists THEN IncDevice(d, type)
    ELSE IF DeviceExists(d, type) THEN d
    ELSE PushDevice(d, type)

\* Mutant: the push run after the increment too (the else left out).
UpdateDevices_IncAndPush(d, deviceExists, type) ==
    IF deviceExists THEN PushDevice(IncDevice(d, type), type)
    ELSE PushDevice(d, type)

\* recordScan's device step after the existence check answered deviceExists.
UpdateDevices(d, deviceExists, type) ==
    IF deviceExists THEN IncDevice(d, type) ELSE PushDevice(d, type)

\* qrCode.isExpired = true; await qrCode.save(): the pre-save hook runs on the
\* caller's copy and the paths it modified are written to the stored document.
SaveExpired(d, qrCode) ==
    LET s == PreSave([qrCode EXCEPT !.isExpired = TRUE])
    IN  IF ~d.exists THEN d
        ELSE [d EXCEPT !.isExpired = IF s.isExpired # qrCode.isExpired
                                     THEN s.isExpired ELSE @,
                       !.password = IF s.password # qrCode.password
                                    THEN s.password ELSE @,
                       !.maxScans = IF s.maxScans # qrCode.maxScans
                                    THEN s.maxScans ELSE @]

\* ------------------------------------------------------------------- state
VARIABLES
    doc,          \* the stored QR record (NoDoc once deleted)
    now,          \* the clock: the value of new Date()
    pc,           \* each request's position
    kind,         \* each request's handler
    scanData,     \* recordScan's scanData argument
    body,         \* the password-verification request's body
    epDoc,        \* the qrCode a route handler read
    qrCode,       \* the qrCode recordScan read
    at,           \* the new Date() of recordScan's update
    deviceExists, \* recordScan's deviceExists
    ret,          \* recordScan's return value (NoDoc for null)
    resp,         \* the response sent
    cause,        \* why recordScan returned null / the route said expired
    calls,        \* recordScan invocations made by the request
    applied,      \* the request's step-4 update changed the stored record
    qrCodes,      \* the records of one user, in query order
    analytics,    \* what getAnalytics returned for them
    verdict,      \* what isQrCodeExpired returned, and when
    userAgent,    \* the user agent given to the device detection
    deviceType    \* the device type it detected

vars ==
    <<doc, now, pc, kind, scanData, body, epDoc, qrCode, at, deviceExists,
      ret, resp, cause, calls, applied, qrCodes, analytics, verdict,
      userAgent, deviceType>>

\* What the evaluator and the aggregator were given and returned.
reports == <<qrCodes, analytics, verdict, userAgent, deviceType>>

locals == <<scanData, body, epDoc, qrCode, at, deviceExists>>

\* ------------------------------------------------------------------ inputs
UserAgents == {{"iphone", "android"}, {"windows phone"}}

NoScanData == [userAgent |-> {}, country |-> Undefined, city |-> Undefined]

NoBody == [has |-> FALSE, password |-> EmptyString]

RsPcs == {"rs_find", "rs_save", "rs_update", "rs_devfind", "rs_devupd", "rs_final"}

\* ---------------------------------------------------------------- recordScan
\* What the caller of recordScan answers once it has returned r.
Respond(k, r) ==
    CASE k = "scan" -> "returned"
      [] k = "api" -> IF ~r.exists THEN "expired"
                      ELSE IF r.isPasswordProtected THEN "requires_password"
                      ELSE "success"
      [] k = "verify" -> "success"
      [] k = "track" -> "redirect"

\* recordScan returns r (c: why it is null), and its caller answers.
\* recordScan's own variables go out of scope.
Return(p, r, c) ==
    /\ pc' = [pc EXCEPT ![p] = "done"]
    /\ ret' = [ret EXCEPT ![p] = Held(r)]
    /\ cause' = [cause EXCEPT ![p] = c]
    /\ resp' = [resp EXCEPT ![p] = Respond(kind[p], r)]
    /\ qrCode' = [qrCode EXCEPT ![p] = NoDoc]
    /\ at' = [at EXCEPT ![p] = NullDate]
    /\ deviceExists' = [deviceExists EXCEPT ![p] = FALSE]
    /\ epDoc' = [epDoc EXCEPT ![p] = NoDoc]

\* Mutant: the final re-fetch placed after the try block.
Caught_FinalOutside(step) == step \in RsPcs \ {"rs_final"}

\* The steps of recordScan that its try block encloses: the try opens before
\* the first findById and closes after the return of finalQrCode.
Caught(step) == step \in RsPcs

\* An exception is thrown at request p's current step of recordScan: the
\* catch returns null (c: why), or the exception leaves recordScan.
Throw(p, c) ==
    IF Caught(pc[p])
    THEN Return(p, NoDoc, c)
    ELSE /\ pc' = [pc EXCEPT ![p] = "threw"]
         /\ UNCHANGED <<ret, cause, resp, qrCode, at, deviceExists, epDoc>>

\* Requests are interchangeable: they are numbered in the order of their
\* first store operation.
Arrives(p) ==
    /\ pc[p] = "idle"
    /\ \A q \in Procs : q < p => pc[q] # "idle"

\* const qrCode = await QRCode.findById(qrCodeId); the null check; the
\* expiration check; and, for a usable record, the call of findByIdAndUpdate.
FindById(p) ==
    IF ~doc.exists
    THEN Return(p, NoDoc, "absent")
    ELSE /\ qrCode' = [qrCode EXCEPT ![p] = Held(doc)]
         /\ IF isQrCodeExpired(doc, now)
            THEN /\ pc' = [pc EXCEPT ![p] = "rs_save"]
                 /\ UNCHANGED at
            ELSE /\ pc' = [pc EXCEPT ![p] = "rs_update"]
                 /\ at' = [at EXCEPT ![p] = now]
         /\ UNCHANGED <<ret, resp, cause, deviceExists, epDoc>>

\* A direct call recordScan(qrCodeId, scanData), up to its first await.
Scan(p) ==
    /\ Arrives(p)
    /\ \E ua \in UserAgents :
           scanData' = [scanData EXCEPT ![p] = [NoScanData EXCEPT !.userAgent = ua]]
    /\ kind' = [kind EXCEPT ![p] = "scan"]
    /\ calls' = [calls EXCEPT ![p] = @ + 1]
    /\ FindById(p)
    /\ UNCHANGED <<doc, now, body, applied>>
    /\ UNCHANGED reports

\* A direct call recordScan(qrCodeId, scanData) enters the function.
Call(p, agents) ==
    /\ Arrives(p)
    /\ \E ua \in agents :
           scanData' = [scanData EXCEPT ![p] = [NoScanData EXCEPT !.userAgent = ua]]
    /\ kind' = [kind EXCEPT ![p] = "scan"]
    /\ calls' = [calls EXCEPT ![p] = @ + 1]
    /\ pc' = [pc EXCEPT ![p] = "rs_find"]
    /\ UNCHANGED <<doc, now, body, epDoc, qrCode, at, deviceExists, ret, resp,
                   cause, applied>>
    /\ UNCHANGED reports

\* recordScan called by a route handler, up to its first await.
RsFind(p) ==
    /\ pc[p] = "rs_find"
    /\ FindById(p)
    /\ UNCHANGED <<doc, now, kind, scanData, body, calls, applied>>
    /\ UNCHANGED reports

\* qrCode.isExpired = true; await qrCode.save(); return null.
RsSave(p) ==
    /\ pc[p] = "rs_save"
    /\ doc' = SaveExpired(doc, qrCode[p])
    /\ Return(p, NoDoc, "expired")
    /\ UNCHANGED <<now, kind, scanData, body, calls, applied>>
    /\ UNCHANGED reports

\* The atomic update of step 4 reaches the store.
RsUpdate(p) ==
    /\ pc[p] = "rs_update"
    /\ doc' = IF doc.exists
              THEN FindByIdAndUpdate(doc, qrCode[p], LocationInfo(scanData[p]), at[p])
              ELSE doc
    /\ applied' = [applied EXCEPT ![p] = doc.exists]
    /\ pc' = [pc EXCEPT ![p] = "rs_devfind"]
    /\ UNCHANGED <<now, kind, locals, ret, resp, cause, calls>>
    /\ UNCHANGED reports

\* const deviceExists = await QRCode.findOne({...}).
RsDevFind(p) ==
    /\ pc[p] = "rs_devfind"
    /\ deviceExists' =
           [deviceExists EXCEPT ![p] = DeviceExists(doc, DeviceType(scanData[p].userAgent))]
    /\ pc' = [pc EXCEPT ![p] = "rs_devupd"]
    /\ UNCHANGED <<doc, now, kind, scanData, body, epDoc, qrCode, at, ret, resp,
                   cause, calls, applied>>
    /\ UNCHANGED reports

\* await QRCode.updateOne(...): increment the entry or push a new one.
RsDevUpd(p) ==
    /\ pc[p] = "rs_devupd"
    /\ doc' = UpdateDevices(doc, deviceExists[p], DeviceType(scanData[p].userAgent))
    /\ pc' = [pc EXCEPT ![p] = "rs_final"]
    /\ UNCHANGED <<now, kind, locals, ret, resp, cause, calls, applied>>
    /\ UNCHANGED reports

\* const finalQrCode = await QRCode.findById(qrCodeId); reading a field of a
\* null finalQrCode throws, and the catch returns null.
RsFinal(p) ==
    /\ pc[p] = "rs_final"
    /\ IF doc.exists THEN Return(p, doc, "none") ELSE Throw(p, "absent")
    /\ UNCHANGED <<doc, now, kind, scanData, body, calls, applied>>
    /\ UNCHANGED reports

\* A store operation of recordScan rejects: its catch returns null.
Fail(p) ==
    /\ pc[p] \in RsPcs
    /\ Throw(p, "failure")
    /\ UNCHANGED <<doc, now, kind, scanData, body, calls, applied>>
    /\ UNCHANGED reports

\* Time passes.
Tick ==
    /\ now < MaxTime
    /\ now' = now + 1
    /\ UNCHANGED <<doc, pc, kind, locals, ret, resp, cause, calls, applied>>
    /\ UNCHANGED reports

\* ------------------------------------------------------------- specification
\* Records as created: no scans yet, not expired, any security policy.
\* Nothing evaluated or aggregated yet.
NoVerdict == [evaluated |-> FALSE, at |-> NullDate, expired |-> FALSE]

NoAnalytics == [returned |-> FALSE, totalQrCodes |-> 0, totalScans |-> 0,
                mostScanned |-> 0]

InitReports ==
    /\ qrCodes = << >>
    /\ analytics = NoAnalytics
    /\ verdict = NoVerdict
    /\ userAgent = {}
    /\ deviceType = "none"

InitProcs ==
    /\ now = 1
    /\ pc = [p \in Procs |-> "idle"]
    /\ kind = [p \in Procs |-> "none"]
    /\ scanData = [p \in Procs |-> NoScanData]
    /\ body = [p \in Procs |-> NoBody]
    /\ epDoc = [p \in Procs |-> NoDoc]
    /\ qrCode = [p \in Procs |-> NoDoc]
    /\ at = [p \in Procs |-> NullDate]
    /\ deviceExists = [p \in Procs |-> FALSE]
    /\ ret = [p \in Procs |-> NoDoc]
    /\ resp = [p \in Procs |-> "none"]
    /\ cause = [p \in Procs |-> "none"]
    /\ calls = [p \in Procs |-> 0]
    /\ applied = [p \in Procs |-> FALSE]

InitLocals == InitProcs /\ InitReports

\* Concurrent direct calls of recordScan on one unprotected record.
Init ==
    /\ \E e \in ExpiryDates, m \in 0..MaxLimit :
           doc = NewDoc(FALSE, EmptyString, e, m)
    /\ InitLocals

Next ==
    \/ \E p \in Procs : Scan(p)
    \/ \E p \in Procs : RsSave(p)
    \/ \E p \in Procs : RsUpdate(p)
    \/ \E p \in Procs : RsDevFind(p)
    \/ \E p \in Procs : RsDevUpd(p)
    \/ \E p \in Procs : RsFinal(p)
    \/ Tick

Spec == Init /\ [][Next]_vars

\* ------------------------------------------------------------ route handlers
\* The responses that carry expired: true or an expired page.
ExpiredOutcomes == {"expired", "limit_reached"}

\* A route handler up to its first await and the checks that follow it: it
\* answers out, or goes on to call recordScan (out = "record_scan").
Route(p, k, out, sd, b) ==
    /\ Arrives(p)
    /\ kind' = [kind EXCEPT ![p] = k]
    /\ scanData' = [scanData EXCEPT ![p] = sd]
    /\ body' = [body EXCEPT ![p] = b]
    /\ IF out = "record_scan"
       THEN /\ pc' = [pc EXCEPT ![p] = "rs_find"]
            /\ calls' = [calls EXCEPT ![p] = @ + 1]
            /\ epDoc' = [epDoc EXCEPT ![p] = Held(doc)]
            /\ UNCHANGED <<resp, cause>>
       ELSE /\ pc' = [pc EXCEPT ![p] = "done"]
            /\ resp' = [resp EXCEPT ![p] = out]
            /\ cause' = [cause EXCEPT ![p] =
                            IF out \in ExpiredOutcomes THEN "expired" ELSE "none"]
            /\ UNCHANGED <<calls, epDoc>>
    /\ UNCHANGED <<doc, now, qrCode, at, deviceExists, ret, applied>>
    /\ UNCHANGED reports

\* GET /api/analytics/track/:qrCodeId/:trackingId before recordScan.
ApiOutcome(d, t) ==
    IF ~d.exists THEN "not_found"
    ELSE IF isQrCodeExpired(d, t) THEN "expired"
    ELSE "record_scan"

Api(p, agents) ==
    \E ua \in agents :
        Route(p, "api", ApiOutcome(doc, now),
              [userAgent |-> ua, country |-> Unknown, city |-> Unknown], NoBody)

\* if (!password): no password in the body, or an empty one.
NoPassword(b) == ~b.has \/ b.password = EmptyString

\* POST /api/analytics/verify-password/:qrCodeId before recordScan.
VerifyOutcome(d, b, t) ==
    IF ~d.exists THEN "not_found"
    ELSE IF ~d.isPasswordProtected THEN "not_protected"
    ELSE IF d.expiresAt # NullDate /\ Later(t, d.expiresAt) THEN "expired"
    ELSE IF d.maxScans > 0 /\ d.scanCount >= d.maxScans THEN "limit_reached"
    ELSE IF NoPassword(b) THEN "password_required"
    ELSE IF Trim(d.password) # Trim(b.password) THEN "invalid_password"
    ELSE "record_scan"

\* The passwords a request submits.
Submitted ==
    {<< >>, <<" ">>, <<"a">>, <<"A">>, <<" ", "a", " ">>}

Bodies == {NoBody} \cup {[has |-> TRUE, password |-> w] : w \in Submitted}

Verify(p, bodies, agents) ==
    \E b \in bodies, ua \in agents :
        Route(p, "verify", VerifyOutcome(doc, b, now),
              [NoScanData EXCEPT !.userAgent = ua], b)

\* GET /track/:qrCodeId/:trackingId before recordScan.
TrackOutcome(d, t) ==
    IF ~d.exists THEN "not_found"
    ELSE IF d.expiresAt # NullDate /\ Later(t, d.expiresAt) THEN "expired"
    ELSE IF d.maxScans > 0 /\ d.scanCount >= d.maxScans THEN "limit_reached"
    ELSE IF d.isPasswordProtected THEN "password_form"
    ELSE IF isQrCodeExpired(d, t) THEN "expired"
    ELSE "record_scan"

\* geoip.lookup(ip): nothing, or a place (geoip-lite leaves city empty
\* when it knows the country only).
NoGeo == [found |-> FALSE, country |-> "", city |-> ""]

Geos == {NoGeo, [found |-> TRUE, country |-> "IN", city |-> ""]}

\* locationData of the tracking route.
LocationData(geo) ==
    [country |-> IF geo.found THEN geo.country ELSE Unknown,
     city |-> IF geo.found THEN geo.city ELSE Unknown]

Track(p, agents) ==
    \E ua \in agents, geo \in Geos :
        Route(p, "track", TrackOutcome(doc, now),
              [userAgent |-> ua, country |-> LocationData(geo).country,
               city |-> LocationData(geo).city], NoBody)

\* PUT /api/qrcodes/:id: findOneAndUpdate({_id, userId}, req.body): the
\* paths the body names are set, nothing else, and no save hook runs.
ApplyUpdate(d, updateData) ==
    [f \in DOMAIN d |-> IF f \in DOMAIN updateData THEN updateData[f] ELSE d[f]]

\* delete updateData.userId.
DeleteUserId(updateData) ==
    [f \in DOMAIN updateData \ {"userId"} |-> updateData[f]]

\* The request bodies of the edits: the owner lifts the expiry date, lifts
\* the scan limit, or switches password protection off.
EditBodies ==
    {("expiresAt" :> NullDate), ("maxScans" :> 0),
     ("isPasswordProtected" :> FALSE)}

\* The owner's PUT with one of the given request bodies; a request that
\* changes nothing is left out.
Put(bodies) ==
    /\ doc.exists
    /\ \E updateData \in bodies :
           /\ ApplyUpdate(doc, DeleteUserId(updateData)) # doc
           /\ doc' = ApplyUpdate(doc, DeleteUserId(updateData))
    /\ UNCHANGED <<now, pc, kind, locals, ret, resp, cause, calls, applied>>
    /\ UNCHANGED reports

Edit == Put(EditBodies)

\* Any request body: the paths of the schema a body may name, the security
\* fields and the others alike.
PutBodies ==
    EditBodies \cup
    {("isExpired" :> FALSE), ("scanCount" :> 0), ("lastScanned" :> NullDate),
     ("userId" :> "other"), ("userId" :> "other") @@ ("maxScans" :> 1)}

\* DELETE /api/qrcodes/:id: findOneAndDelete({_id, userId}).
Delete ==
    /\ doc.exists
    /\ doc' = NoDoc
    /\ UNCHANGED <<now, pc, kind, locals, ret, resp, cause, calls, applied>>
    /\ UNCHANGED reports

\* The stored passwords of protected records: POST /api/qrcodes stores a
\* trimmed non-empty one, POST /api/qrcodes/bulk stores what it is given.
StoredPasswords == {<< >>, <<"a">>, <<" ", "a">>}

\* Concurrent password-verification requests on one protected record.
InitVerify ==
    /\ \E w \in StoredPasswords, e \in ExpiryDates, m \in 0..MaxLimit :
           doc = NewDoc(TRUE, w, e, m)
    /\ InitLocals

NextVerify ==
    \/ \E p \in Procs : Verify(p, Bodies, UserAgents)
    \/ \E p \in Procs : RsFind(p)
    \/ \E p \in Procs : RsSave(p)
    \/ \E p \in Procs : RsUpdate(p)
    \/ \E p \in Procs : RsDevFind(p)
    \/ \E p \in Procs : RsDevUpd(p)
    \/ \E p \in Procs : RsFinal(p)
    \/ Tick

SpecVerify == InitVerify /\ [][NextVerify]_vars

\* Requests of the scan endpoints and the owner's edits on one record,
\* protected or not.
OneAgent == {{"iphone", "android"}}

RouteBodies == {NoBody, [has |-> TRUE, password |-> <<"a">>]}

InitRoutes ==
    /\ \/ \E e \in ExpiryDates, m \in 0..MaxLimit :
              doc = NewDoc(FALSE, EmptyString, e, m)
       \/ \E e \in ExpiryDates, m \in 0..MaxLimit :
              doc = NewDoc(TRUE, <<"a">>, e, m)
    /\ InitLocals

NextRoutes ==
    \/ \E p \in Procs : Api(p, OneAgent)
    \/ \E p \in Procs : Verify(p, RouteBodies, OneAgent)
    \/ \E p \in Procs : Track(p, OneAgent)
    \/ \E p \in Procs : RsFind(p)
    \/ \E p \in Procs : RsSave(p)
    \/ \E p \in Procs : RsUpdate(p)
    \/ \E p \in Procs : RsDevFind(p)
    \/ \E p \in Procs : RsDevUpd(p)
    \/ \E p \in Procs : RsFinal(p)
    \/ Edit
    \/ Tick

SpecRoutes == InitRoutes /\ [][NextRoutes]_vars

\* Requests of the scan endpoints on one record while the store may fail
\* and the owner may delete the record.
NextFaults ==
    \/ \E p \in Procs : Api(p, OneAgent)
    \/ \E p \in Procs : Verify(p, RouteBodies, OneAgent)
    \/ \E p \in Procs : Track(p, OneAgent)
    \/ \E p \in Procs : RsFind(p)
    \/ \E p \in Procs : RsSave(p)
    \/ \E p \in Procs : RsUpdate(p)
    \/ \E p \in Procs : RsDevFind(p)
    \/ \E p \in Procs : RsDevUpd(p)
    \/ \E p \in Procs : RsFinal(p)
    \/ \E p \in Procs : Fail(p)
    \/ Delete
    \/ Tick

SpecFaults == InitRoutes /\ [][NextFaults]_vars

\* Concurrent requests to the scan-tracking route on one unprotected record.
NextTrack ==
    \/ \E p \in Procs : Track(p, OneAgent)
    \/ \E p \in Procs : RsFind(p)
    \/ \E p \in Procs : RsSave(p)
    \/ \E p \in Procs : RsUpdate(p)
    \/ \E p \in Procs : RsDevFind(p)
    \/ \E p \in Procs : RsDevUpd(p)
    \/ \E p \in Procs : RsFinal(p)
    \/ Tick

SpecTrack == Init /\ [][NextTrack]_vars

\* Sequential direct calls of recordScan: a call starts when none is in flight.
Quiescent == \A q \in Procs : pc[q] \in {"idle", "done"}

SeqScan(p) == Quiescent /\ Scan(p)

NextSeq ==
    \/ \E p \in Procs : SeqScan(p)
    \/ \E p \in Procs : RsSave(p)
    \/ \E p \in Procs : RsUpdate(p)
    \/ \E p \in Procs : RsDevFind(p)
    \/ \E p \in Procs : RsDevUpd(p)
    \/ \E p \in Procs : RsFinal(p)
    \/ Tick

SpecSeq == Init /\ [][NextSeq]_vars

\* Direct calls of recordScan on one record while its owner sends edit
\* requests with any body.
NextEdit ==
    \/ \E p \in Procs : Scan(p)
    \/ \E p \in Procs : RsSave(p)
    \/ \E p \in Procs : RsUpdate(p)
    \/ \E p \in Procs : RsDevFind(p)
    \/ \E p \in Procs : RsDevUpd(p)
    \/ \E p \in Procs : RsFinal(p)
    \/ Put(PutBodies)
    \/ Tick

SpecEdit == Init /\ [][NextEdit]_vars

\* Direct calls of recordScan on one record while the store may fail at any
\* step and the owner may delete the record. The record has a scan limit or
\* none, and no expiry date: the expired branch is reached through the limit.
InitCalls ==
    /\ \E m \in 0..MaxLimit : doc = NewDoc(FALSE, EmptyString, NullDate, m)
    /\ InitLocals

NextCalls ==
    \/ \E p \in Procs : Call(p, OneAgent)
    \/ \E p \in Procs : RsFind(p)
    \/ \E p \in Procs : RsSave(p)
    \/ \E p \in Procs : RsUpdate(p)
    \/ \E p \in Procs : RsDevFind(p)
    \/ \E p \in Procs : RsDevUpd(p)
    \/ \E p \in Procs : RsFinal(p)
    \/ \E p \in Procs : Fail(p)
    \/ Delete
    \/ Tick

SpecCalls == InitCalls /\ [][NextCalls]_vars

\* ------------------------------------------------------- evaluator on its own
\* The records the evaluator may be given: null, and every combination of
\* flag, scanCount, limit and expiry date (none, invalid, or a date).
Records ==
    {NoDoc} \cup
    {[NoDoc EXCEPT !.exists = TRUE, !.userId = Owner, !.isExpired = x,
                   !.scanCount = c, !.expiresAt = e, !.maxScans = m] :
        x \in BOOLEAN, c \in 0..MaxLimit,
        e \in {NullDate, InvalidDate} \cup Dates, m \in 0..MaxLimit}

\* A caller evaluates isQrCodeExpired on the record at the current time.
Evaluate ==
    /\ verdict' = [evaluated |-> TRUE, at |-> now,
                   expired |-> isQrCodeExpired(doc, now)]
    /\ UNCHANGED <<doc, now, pc, kind, locals, ret, resp, cause, calls, applied,
                   qrCodes, analytics, userAgent, deviceType>>

InitEval ==
    /\ doc \in Records
    /\ InitLocals

NextEval ==
    \/ Evaluate
    \/ Tick

SpecEval == InitEval /\ [][NextEval]_vars

\* ------------------------------------------------ device detection on its own
\* recordScan's device detection applied to the user agent.
DetectDevice ==
    /\ deviceType = "none"
    /\ deviceType' = DeviceType(userAgent)
    /\ UNCHANGED <<doc, now, pc, kind, locals, ret, resp, cause, calls, applied,
                   qrCodes, analytics, verdict, userAgent>>

\* Every user agent: any combination of the markers the detection looks for.
InitDetect ==
    /\ doc = NoDoc
    /\ InitProcs
    /\ qrCodes = << >>
    /\ analytics = NoAnalytics
    /\ verdict = NoVerdict
    /\ userAgent \in SUBSET Markers
    /\ deviceType = "none"

NextDetect == DetectDevice

SpecDetect == InitDetect /\ [][NextDetect]_vars

\* ------------------------------------------------------ Analytics Aggregator
\* qrCodes.forEach of getAnalytics from element i on; a holds totalScans,
\* maxScans and mostScanned (the position of the record, 0 for null).
RECURSIVE ForEachQr(_, _, _)
ForEachQr(codes, i, a) ==
    IF i > Len(codes) THEN a
    ELSE ForEachQr(codes, i + 1,
           [totalScans |-> a.totalScans + codes[i].scanCount,
            maxScans |-> IF codes[i].scanCount > a.maxScans
                         THEN codes[i].scanCount ELSE a.maxScans,
            mostScanned |-> IF codes[i].scanCount > a.maxScans
                            THEN i ELSE a.mostScanned])

\* getAnalytics(null, userId) over the records QRCode.find({userId}) returned.
getAnalytics(codes) ==
    LET a == ForEachQr(codes, 1,
                       [totalScans |-> 0, maxScans |-> 0, mostScanned |-> 0])
    IN  [returned |-> TRUE, totalQrCodes |-> Len(codes),
         totalScans |-> a.totalScans, mostScanned |-> a.mostScanned]

\* The records a user may own: up to MaxRecords, each with its scanCount.
UserRecords ==
    UNION {[1..n -> [scanCount : 0..MaxCount]] : n \in 0..MaxRecords}

GetAnalytics ==
    /\ ~analytics.returned
    /\ analytics' = getAnalytics(qrCodes)
    /\ UNCHANGED <<doc, now, pc, kind, locals, ret, resp, cause, calls, applied,
                   qrCodes, verdict, userAgent, deviceType>>

InitAnalytics ==
    /\ doc = NoDoc
    /\ InitProcs
    /\ qrCodes \in UserRecords
    /\ analytics = NoAnalytics
    /\ verdict = NoVerdict
    /\ userAgent = {}
    /\ deviceType = "none"

NextAnalytics == GetAnalytics

SpecAnalytics == InitAnalytics /\ [][NextAnalytics]_vars

\* ------------------------------------------------------------------ claims
Done(p) == pc[p] = "done"

AllDone == \A p \in Procs : Done(p)

\* The calls whose step-4 update changed the stored record.
Applied == {p \in Procs : applied[p]}

\* The device type recordScan classified for request p.
TypeOf(p) == DeviceType(scanData[p].userAgent)

RECURSIVE SumCounts(_, _)
SumCounts(devices, type) ==
    IF devices = << >> THEN 0
    ELSE (IF Head(devices).type = type THEN Head(devices).count ELSE 0)
         + SumCounts(Tail(devices), type)

DeviceTypes == {DeviceType(ua) : ua \in UserAgents}

\* C1: under any interleaving of concurrent recordScan calls, once the stored
\* isExpired flag is true it is never false in a later state.
C1_StickyIsExpired ==
    [][(doc.exists /\ doc.isExpired) => doc'.isExpired]_vars

\* C2: every step-4 update adds exactly 1 to the stored scanCount, sets
\* lastScanned and appends exactly one scanLocations entry, in one step; no
\* increment is lost: scanCount is the number of calls whose update was applied.
C2_AtomicIncrement ==
    /\ [](/\ doc.scanCount = Cardinality(Applied)
          /\ Len(doc.scanLocations) = Cardinality(Applied))
    /\ [][\A p \in Procs :
            (applied'[p] /\ ~applied[p]) =>
                /\ doc'.scanCount = doc.scanCount + 1
                /\ doc'.lastScanned = at[p]
                /\ doc'.scanLocations =
                       Append(doc.scanLocations,
                              [country |-> LocationInfo(scanData[p]).country,
                               city |-> LocationInfo(scanData[p]).city,
                               timestamp |-> at[p]])
                /\ doc'.devices = doc.devices]_vars

\* Two calls that read the same scanCount have both updated, both counted.
C2_Witness ==
    \E p, q \in Procs :
        /\ p # q /\ pc[p] = "rs_devfind" /\ pc[q] = "rs_devfind"
        /\ applied[p] /\ applied[q]
        /\ qrCode[p].scanCount = qrCode[q].scanCount
        /\ doc.scanCount = qrCode[p].scanCount + 2

\* C9: the devices sequence holds at most one entry per device-type label.
C9_UniqueDeviceLabels ==
    \A i, j \in 1..Len(doc.devices) :
        i # j => doc.devices[i].type # doc.devices[j].type

\* The analytics block of a document.
Analytics(d) == <<d.scanCount, d.lastScanned, d.scanLocations, d.devices>>

\* The scan limit has been reached and the call that reached it has returned.
LimitReached ==
    /\ doc.maxScans > 0 /\ doc.scanCount = doc.maxScans /\ doc.isExpired
    /\ \A q \in Procs : pc[q] \notin {"rs_devfind", "rs_devupd", "rs_final"}

\* C3: for a record with maxScans = N > 0, scanCount = N - 1, not expired,
\* one sequential recordScan returns a record with scanCount = N and
\* isExpired = true; every following recordScan returns null and leaves
\* scanCount, lastScanned, scanLocations and devices unchanged.
C3_LastScanThenNull ==
    /\ [][\A p \in Procs :
            (pc[p] = "rs_final" /\ pc'[p] = "done"
             /\ qrCode[p].maxScans > 0
             /\ qrCode[p].scanCount = qrCode[p].maxScans - 1) =>
                /\ ret'[p].exists
                /\ ret'[p].scanCount = qrCode[p].maxScans
                /\ ret'[p].isExpired
                /\ doc'.scanCount = doc.maxScans /\ doc'.isExpired]_vars
    /\ [][LimitReached =>
            /\ Analytics(doc') = Analytics(doc)
            /\ \A p \in Procs :
                   /\ (pc[p] = "idle" /\ pc'[p] # "idle") => pc'[p] = "rs_save"
                   /\ (pc[p] # "done" /\ pc'[p] = "done") =>
                          (~ret'[p].exists /\ cause'[p] = "expired")]_vars

\* The last allowed scan was returned to one call, null to a following one.
C3_Witness ==
    \E p, q \in Procs :
        /\ p # q /\ Done(p) /\ Done(q)
        /\ ret[p].exists /\ ret[p].isExpired
        /\ ret[p].scanCount = doc.maxScans
        /\ ~ret[q].exists /\ cause[q] = "expired"
        /\ doc.maxScans > 0 /\ doc.scanCount = doc.maxScans
        /\ doc.expiresAt = NullDate

\* C10 as stated: two concurrent recordScan calls of one device type whose
\* device steps race (both find no entry of the type) leave the counts of
\* that type's entries summing to less than the scans added to scanCount.
C10_TiedRaceUnderCounts ==
    \A type \in DeviceTypes :
        (/\ AllDone
         /\ \A p \in Procs : cause[p] = "none" /\ TypeOf(p) = type
         /\ Len(doc.devices) > 1)
        => SumCounts(doc.devices, type) < doc.scanCount

\* C10 as amended: once every call has returned its record, the counts of
\* each device type's entries sum to exactly the scans of that type added to
\* scanCount; the race leaves two entries of one type, not a lost count.
C10_DeviceSumExact ==
    (AllDone /\ \A p \in Procs : cause[p] \in {"none", "expired"})
    => \A type \in DeviceTypes :
           SumCounts(doc.devices, type)
               = Cardinality({p \in Applied : TypeOf(p) = type})

\* Two calls of one device type raced: two entries of that type, count 1 each.
C10_Witness ==
    \E p, q \in Procs :
        /\ p # q /\ Done(p) /\ Done(q)
        /\ cause[p] = "none" /\ cause[q] = "none"
        /\ TypeOf(p) = TypeOf(q)
        /\ Len(doc.devices) = 2
        /\ doc.devices[1].type = TypeOf(p) /\ doc.devices[2].type = TypeOf(p)
        /\ SumCounts(doc.devices, TypeOf(p)) = 2
        /\ doc.scanCount = 2

\* Request p returns from the expired branch of recordScan in this step.
ExpiredReturn(p) == pc[p] = "rs_save" /\ pc'[p] = "done" /\ cause'[p] = "expired"

\* C4: a recordScan call that reads a record the evaluator deems expired
\* returns null and changes no field of the stored record but isExpired,
\* which it sets to true; a repeated call leaves the stored state as it is.
C4_ExpiredCallOnlyFlags ==
    [][\A p \in Procs :
         (ExpiredReturn(p) /\ doc.exists) =>
             /\ ~ret'[p].exists
             /\ doc' = doc \/ doc' = [doc EXCEPT !.isExpired = TRUE]
             /\ Analytics(doc') = Analytics(doc)
             /\ SaveExpired(doc', Held(doc')) = doc']_vars

\* Request p's step-4 update reaches the store in this step.
UpdateStep(p) == pc[p] = "rs_update" /\ pc'[p] = "rs_devfind"

\* C5: the scanCount of a password-protected record increases only by the
\* recordScan of a password-verification request whose submitted password
\* matched the stored one.
C5_ScanOnlyAfterPassword ==
    [][(doc.exists /\ doc.isPasswordProtected /\ doc'.scanCount > doc.scanCount) =>
         \E p \in Procs :
             /\ UpdateStep(p)
             /\ kind[p] = "verify"
             /\ body[p].has
             /\ Trim(body[p].password) = Trim(epDoc[p].password)]_vars

\* Request p is a password-verification request that reads, in this step, a
\* protected record the evaluator deems usable.
VerifyStep(p) ==
    /\ pc[p] = "idle" /\ pc'[p] # "idle" /\ kind'[p] = "verify"
    /\ doc.isPasswordProtected /\ ~isQrCodeExpired(doc, now)

AuthFailures == {"password_required", "invalid_password"}

\* What the verification request does when the passwords match (match) and
\* when they do not.
VerifyDecides(p, match) ==
    /\ match => (pc'[p] = "rs_find" /\ calls'[p] = 1)
    /\ ~match => (/\ pc'[p] = "done" /\ resp'[p] \in AuthFailures
                  /\ calls'[p] = 0 /\ doc' = doc)

\* A verification request that called recordScan called it once and, once
\* recordScan has returned, answers success; it answers success in no other case.
VerifySucceeds ==
    \A p \in Procs :
        kind[p] = "verify" =>
            /\ calls[p] <= 1
            /\ (Done(p) /\ calls[p] = 1) => resp[p] = "success"
            /\ resp[p] = "success" => calls[p] = 1

\* C6: for a protected, non-expired record the request succeeds and
\* invokes recordScan exactly once iff the submitted password equals the
\* stored one after trimming both; otherwise it answers an authentication
\* failure and leaves the record unchanged.
C6_SucceedsIffTrimmedEqual ==
    /\ []VerifySucceeds
    /\ [][\A p \in Procs :
            VerifyStep(p) =>
                VerifyDecides(p, /\ body'[p].has
                                 /\ Trim(body'[p].password) = Trim(doc.password))]_vars

\* C7: the scan-tracking route shows the password form only for a record the
\* evaluator deems usable at that moment.
C7_PromptOnlyIfUsable ==
    [][\A p \in Procs :
         (resp[p] # "password_form" /\ resp'[p] = "password_form") =>
             ~isQrCodeExpired(doc, now)]_vars

\* C8: a request is answered expired only when the record existed and failed
\* the evaluator; never for an absent record or a store failure.
C8_ExpiredOnlyIfExpired ==
    \A p \in Procs : resp[p] \in ExpiredOutcomes => cause[p] = "expired"

\* C11: in every persisted state reached by creations, edits and scans, a
\* record's password is non-empty only if the record is password protected.
C11_PasswordOnlyIfProtected ==
    (doc.exists /\ doc.password # EmptyString) => doc.isPasswordProtected

\* An edit request reaches the store in this step (no request moves, the
\* clock stands still, the stored record changes).
EditStep == pc' = pc /\ now' = now /\ doc' # doc

\* C12: an edit request leaves the analytics block, the isExpired flag and
\* the owner identifier of the record as they were, for every request body.
\* (The schema has no tracking-URL path: the store holds none to change.)
C12_EditKeepsAnalytics ==
    [][EditStep =>
         /\ Analytics(doc') = Analytics(doc)
         /\ doc'.isExpired = doc.isExpired
         /\ doc'.userId = doc.userId]_vars

\* C13: under scan requests, edit requests and the passage of time, once the
\* evaluator has returned true of the stored record it returns true of it in
\* every later state.
C13_EvaluatorMonotonic ==
    [][isQrCodeExpired(doc, now) => isQrCodeExpired(doc', now')]_vars

\* C14: for a record with maxScans = 0 and no expiresAt the scan limit never
\* triggers, whatever the scanCount: the evaluator returns false, the stored
\* isExpired stays false and every recordScan returns the record.
C14_UnlimitedNeverExpires ==
    (doc.maxScans = 0 /\ doc.expiresAt = NullDate) =>
        /\ ~isQrCodeExpired(doc, now)
        /\ ~doc.isExpired
        /\ \A p \in Procs : pc[p] # "rs_save"
        /\ \A p \in Procs : Done(p) => (ret[p].exists /\ ~ret[p].isExpired)

\* Every call has returned the unlimited record, the scans running
\* concurrently (they raced on the device entry).
C14_Witness ==
    /\ doc.maxScans = 0 /\ doc.expiresAt = NullDate
    /\ AllDone
    /\ doc.scanCount = NumCalls
    /\ Len(doc.devices) > 1
    /\ \A p \in Procs : ret[p].exists

\* Request p is a scan request that reads, in this step, a record whose
\* expiresAt has passed and that has no scan yet.
ScansPastExpiry(p) ==
    /\ pc[p] = "idle" /\ pc'[p] # "idle" /\ kind'[p] \in {"api", "track"}
    /\ doc.exists /\ doc.expiresAt # NullDate /\ now > doc.expiresAt
    /\ doc.scanCount = 0

\* C15: a scan attempt on a record whose expiresAt is in the past and whose
\* scanCount is 0 finds it expired before any scan is recorded, and leaves it
\* stored with isExpired = true and scanCount 0.
C15_PastExpiryPersistsFlag ==
    [][\A p \in Procs :
         ScansPastExpiry(p) =>
             /\ pc'[p] = "done" /\ resp'[p] \in ExpiredOutcomes
             /\ doc'.isExpired /\ doc'.scanCount = 0]_vars

\* C16: no failure leaves recordScan: when the store fails at a step of a
\* call, or the record disappears during the call, the call ends by
\* returning null, never by throwing.
C16_FailuresReturnNull ==
    /\ [](\A p \in Procs :
            /\ pc[p] # "threw"
            /\ (Done(p) /\ cause[p] \in {"failure", "absent"}) => ~ret[p].exists)
    /\ [][\A p \in Procs :
            (pc[p] \in RsPcs /\ pc'[p] \notin RsPcs) =>
                /\ pc'[p] = "done"
                /\ ~doc.exists => ~ret'[p].exists]_vars

\* One call failed after its update had been applied, another lost its
\* record to a delete after its update; both returned null.
C16_Witness ==
    \E p, q \in Procs :
        /\ Done(p) /\ cause[p] = "failure" /\ applied[p] /\ ~ret[p].exists
        /\ Done(q) /\ cause[q] = "absent" /\ applied[q] /\ ~ret[q].exists

\* s is a prefix of t.
IsPrefix(s, t) == Len(s) <= Len(t) /\ SubSeq(t, 1, Len(s)) = s

\* C17: under any interleaving of recordScan calls, failing ones included,
\* the stored scanCount is non-negative and never decreases, and
\* scanLocations only grows: each state's sequence is a prefix of the next's.
C17_CountAndLocationsGrow ==
    /\ [](doc.scanCount >= 0)
    /\ [][(doc.exists /\ doc'.exists) =>
            /\ doc'.scanCount >= doc.scanCount
            /\ IsPrefix(doc.scanLocations, doc'.scanLocations)]_vars

\* Two scans recorded at different times, one of them by a call that failed
\* after its update.
C17_Witness ==
    /\ doc.scanCount = 2 /\ Len(doc.scanLocations) = 2
    /\ doc.scanLocations[1] # doc.scanLocations[2]
    /\ \E p \in Procs : Done(p) /\ cause[p] = "failure" /\ applied[p]

RECURSIVE SumScans(_)
SumScans(codes) ==
    IF codes = << >> THEN 0 ELSE Head(codes).scanCount + SumScans(Tail(codes))

\* C18: for a non-empty set of records of a user, getAnalytics returns
\* totalQrCodes = the number of records, totalScans = the sum of their
\* scanCounts, and as mostScanned the first record in query order whose
\* scanCount is the highest of the set.
C18_UserScopeTotals ==
    (analytics.returned /\ qrCodes # << >>) =>
        /\ analytics.totalQrCodes = Len(qrCodes)
        /\ analytics.totalScans = SumScans(qrCodes)
        /\ analytics.mostScanned \in 1..Len(qrCodes)
        /\ \A i \in 1..Len(qrCodes) :
               /\ qrCodes[i].scanCount <= qrCodes[analytics.mostScanned].scanCount
               /\ i < analytics.mostScanned =>
                      qrCodes[i].scanCount < qrCodes[analytics.mostScanned].scanCount

\* The cases in which the evaluator is to return true.
ExpiredCases(d, t) ==
    \/ ~d.exists
    \/ d.isExpired
    \/ d.expiresAt \notin {NullDate, InvalidDate} /\ t > d.expiresAt
    \/ d.maxScans > 0 /\ d.scanCount >= d.maxScans

\* C19: isQrCodeExpired returns true exactly when the record is null, or its
\* flag is set, or expiresAt is a valid time and the current time is strictly
\* after it, or maxScans > 0 and scanCount >= maxScans; it changes nothing.
C19_EvaluatorCases ==
    /\ [](verdict.evaluated => (verdict.expired <=> ExpiredCases(doc, verdict.at)))
    /\ [][verdict' # verdict => doc' = doc]_vars

\* The evaluator returned false at the very time of expiresAt, for a record
\* one scan below its limit.
C19_Witness ==
    /\ verdict.evaluated /\ ~verdict.expired
    /\ doc.exists /\ doc.expiresAt = verdict.at
    /\ doc.maxScans > 0 /\ doc.scanCount = doc.maxScans - 1

\* C20: right after the step-4 update of a call, the stored isExpired is
\* true whenever maxScans > 0 and the stored, incremented scanCount has
\* reached maxScans.
C20_FlagFollowsStoredCount ==
    [][\A p \in Procs :
         (UpdateStep(p) /\ applied'[p]) =>
             ((doc'.maxScans > 0 /\ doc'.scanCount >= doc'.maxScans)
                  => doc'.isExpired)]_vars

\* The labels in their fixed order, and the markers that select each.
LabelOrder == <<"ios", "android", "windows phone", "mac", "windows", "linux">>

LabelMarkers ==
    [ios |-> {"iphone", "ipad"}, android |-> {"android"},
     mac |-> {"macintosh", "mac os"}, windows |-> {"windows"},
     linux |-> {"linux"}] @@ ("windows phone" :> {"windows phone"})

Matches(ua, label) == \E m \in LabelMarkers[label] : Includes(ua, m)

\* C21: the detected device type is the first label, in the order ios,
\* android, windows phone, mac, windows, linux, one of whose markers the user
\* agent contains; with no such label it is mobile for a mobile/tablet user
\* agent, desktop for a windows/macintosh/linux one, and unknown otherwise.
\* A user agent with both iphone and android is ios.
C21_FirstMatchWins ==
    deviceType # "none" =>
        /\ \A i \in 1..Len(LabelOrder) :
               (/\ Matches(userAgent, LabelOrder[i])
                /\ \A j \in 1..(i - 1) : ~Matches(userAgent, LabelOrder[j]))
               => deviceType = LabelOrder[i]
        /\ (\A i \in 1..Len(LabelOrder) : ~Matches(userAgent, LabelOrder[i])) =>
               deviceType =
                   IF Includes(userAgent, "mobile") \/ Includes(userAgent, "tablet")
                   THEN "mobile"
                   ELSE IF \E m \in {"windows", "macintosh", "linux"} :
                               Includes(userAgent, m)
                   THEN "desktop"
                   ELSE "unknown"
        /\ ({"iphone", "android"} \subseteq userAgent) => deviceType = "ios"

\* A user agent that names both iphone and android was classified ios.
C21_Witness ==
    /\ userAgent = {"iphone", "android", "linux", "mobile"}
    /\ deviceType = "ios"

\* C22: for a record with maxScans = N > 0, under any interleaving of
\* concurrent recordScan calls the stored scanCount never exceeds N.
C22_CountWithinLimit ==
    (doc.exists /\ doc.maxScans > 0) => doc.scanCount <= doc.maxScans

\* The requests answered with a redirect to the destination.
Redirected == {p \in Procs : resp[p] = "redirect"}

\* C23: for an unprotected record with maxScans = N > 0, under concurrent
\* requests to the scan-tracking route, at most N requests are answered with
\* a redirect, and only requests whose recordScan returned the record.
C23_RedirectsWithinLimit ==
    (doc.maxScans > 0 /\ ~doc.isPasswordProtected) =>
        /\ Cardinality(Redirected) <= doc.maxScans
        /\ \A p \in Redirected : ret[p].exists

\* C24: the password-verification route answers success, with the redirect
\* target, only if the recordScan call it made returned the record.
C24_SuccessOnlyIfRecorded ==
    \A p \in Procs :
        (kind[p] = "verify" /\ resp[p] = "success") => ret[p].exists

RECURSIVE SumAllCounts(_)
SumAllCounts(devices) ==
    IF devices = << >> THEN 0
    ELSE Head(devices).count + SumAllCounts(Tail(devices))

\* C25: for a record mutated only by recordScan, in every reachable state
\* (calls that fail after the step-4 update included) scanCount equals the
\* number of scanLocations entries and the counts of all devices entries sum
\* to at most scanCount.
C25_CountsAgree ==
    /\ doc.scanCount = Len(doc.scanLocations)
    /\ SumAllCounts(doc.devices) <= doc.scanCount

\* Two scans recorded, one by a call that failed before its device update:
\* the device counts sum to less than scanCount.
C25_Witness ==
    /\ doc.scanCount = 2 /\ Len(doc.scanLocations) = 2
    /\ SumAllCounts(doc.devices) = 1
    /\ AllDone
    /\ \E p \in Procs : cause[p] = "failure" /\ applied[p]

\* C26: recordScan creates no record: a call on an identifier without a
\* record returns null, and once a delete has interleaved with a call in
\* flight the record stays absent and the call returns null.
C26_DeletedStaysDeleted ==
    /\ [][~doc.exists => ~doc'.exists]_vars
    /\ [][\A p \in Procs :
            (pc[p] \in RsPcs /\ pc'[p] \notin RsPcs /\ ~doc.exists) =>
                (pc'[p] = "done" /\ ~ret'[p].exists /\ ~doc'.exists)]_vars

\* A delete interleaved with a call after its update, and another call met
\* no record at all: both returned null and the record is absent.
C26_Witness ==
    \E p, q \in Procs :
        /\ ~doc.exists
        /\ Done(p) /\ applied[p] /\ cause[p] = "absent" /\ ~ret[p].exists
        /\ Done(q) /\ ~applied[q] /\ cause[q] = "absent" /\ ~ret[q].exists

====
